---- MODULE Spec2Model ----
(***************************************************************************)
(* Model of esp/esp_engine_reader/src/main.cpp: a SensESP sketch that      *)
(* caches three analog and two digital inputs in module-scope variables,   *)
(* forwards them to Signal K outputs and redraws an OLED status screen     *)
(* about once a second.                                                    *)
(*                                                                         *)
(* Values: an analog raw reading is the ADC reading in tenths of full      *)
(* scale; a voltage is held in hundredths of a volt, so the scale factor   *)
(* 3.3 is the integer 33 and String(v, 2) prints v \div 100 "." v % 100.   *)
(* millis() is an unsigned 32-bit millisecond counter, held as its two     *)
(* 16-bit halves [hi, lo] (value hi * 2^16 + lo); the calls of millis()    *)
(* within one pass of loop() read the same millisecond.                    *)
(***************************************************************************)
EXTENDS Integers, Sequences, FiniteSets, TLC

VARIABLES
    pc,                     \* position of the single thread in setup()/loop()
    millis,                 \* millis(): the 32-bit millisecond clock
    current_analog_value,   \* current_analog_value1..3           (lines 27-29)
    current_digital_input,  \* current_digital_input1..2          (lines 30-31)
    display_working,        \* display_working                    (line 32)
    analog_input,           \* analog_input1..3: [raw, output]    (lines 98-107)
    digital_input,          \* digital_input1..2: [raw, output]   (lines 127-130)
    sk_output,              \* ai1..3_sk_output, di1..2_sk_output (lines 162-223)
    display,                \* the SSD1306Wire driver object      (line 77)
    lastDisplayUpdate,      \* static local of loop()             (line 258)
    deviceCount,            \* scanI2C()'s count, as logged       (lines 57-73)
    writers,                \* for each cached value, the callbacks that have assigned it
    edits                   \* configuration edits made so far

vars == <<pc, millis, current_analog_value, current_digital_input,
          display_working, analog_input, digital_input, sk_output, display,
          lastDisplayUpdate, deviceCount, writers, edits>>

----------------------------------------------------------------------------
(* Bounds of the model *)

\* analog raw readings range over 0..MaxRaw
MaxRaw == 1
\* the pollers are followed while the clock is at most MaxMillis after boot
\* or wrap, and loop() for one more pass
MaxMillis == 1000
\* the running state the model also starts from lies WrapLead ms before the
\* clock wraps
WrapLead == 1
\* configuration edits made through the web UI
MaxEdits == 1

----------------------------------------------------------------------------
(* Program constants *)

kAnalogInput1Gpio == 7
kAnalogInput2Gpio == 6
kAnalogInput3Gpio == 5
kDigitalInput1Gpio == 4
kDigitalInput2Gpio == 3
\* 3.3, in tenths
kAnalogInputScale == 33
\* delay(500) before display.init()
VextSettleDelay == 500
\* delay(100) at the end of loop()
LoopDelay == 100
\* the redraw threshold of loop()
DisplayInterval == 1000
\* the display's I2C address 0x3c
DisplayAddress == 60
\* scanI2C probes addresses 1..126
LastScanAddress == 126

\* unsigned long is 32 bits wide on the ESP32: two halves of 16 bits
Half == 2^16

AnalogChannels == 1..3
DigitalChannels == 1..2

AnalogGpio(i) ==
    CASE i = 1 -> kAnalogInput1Gpio
      [] i = 2 -> kAnalogInput2Gpio
      [] i = 3 -> kAnalogInput3Gpio

DigitalGpio(i) ==
    CASE i = 1 -> kDigitalInput1Gpio
      [] i = 2 -> kDigitalInput2Gpio

\* a cached value is named by its kind and index
AnalogVar(i) == <<"analog", i>>
DigitalVar(i) == <<"digital", i>>
CachedVars == {AnalogVar(i) : i \in AnalogChannels}
                \cup {DigitalVar(i) : i \in DigitalChannels}

----------------------------------------------------------------------------
(* Arithmetic *)

\* an unsigned 32-bit value from its halves
U32(hi, lo) == [hi |-> hi, lo |-> lo]

Zero32 == U32(0, 0)

\* a + n in unsigned 32-bit arithmetic, for a small natural n
Add32(a, n) ==
    U32((a.hi + (a.lo + n) \div Half) % Half, (a.lo + n) % Half)

\* a - b in unsigned 32-bit arithmetic
Sub32(a, b) ==
    LET borrow == IF a.lo < b.lo THEN 1 ELSE 0
    IN  U32((a.hi - b.hi - borrow + Half) % Half, (a.lo - b.lo + Half) % Half)

\* a > n for an unsigned 32-bit a and a small natural n
Above32(a, n) == a.hi > 0 \/ a.lo > n

\* a > b for unsigned 32-bit a and b
Greater32(a, b) == a.hi > b.hi \/ (a.hi = b.hi /\ a.lo > b.lo)

\* a / 1000 for an unsigned 32-bit a, by long division
Div1000(a) ==
    (a.hi \div 1000) * Half + ((a.hi % 1000) * Half + a.lo) \div 1000

\* AnalogInput's output: the raw reading times the output scale
AnalogScaled(raw) == kAnalogInputScale * raw

\* String(v, 2) of a float held in hundredths
FloatString2(v) ==
    ToString(v \div 100) \o "."
        \o ToString((v % 100) \div 10) \o ToString(v % 10)

LevelString(b) == IF b THEN "HIGH" ELSE "LOW"

----------------------------------------------------------------------------
(* Signal K outputs *)

Channels == CachedVars

SkPath(ch) ==
    CASE ch = AnalogVar(1) -> "sensors.analog_input1.voltage"
      [] ch = AnalogVar(2) -> "sensors.analog_input2.voltage"
      [] ch = AnalogVar(3) -> "sensors.analog_input3.voltage"
      [] ch = DigitalVar(1) -> "sensors.digital_input1.value"
      [] ch = DigitalVar(2) -> "sensors.digital_input2.value"

SkMetadata(ch) ==
    CASE ch = AnalogVar(1) -> [units |-> "V", description |-> "Analog input 1 voltage"]
      [] ch = AnalogVar(2) -> [units |-> "V", description |-> "Analog input 2 voltage"]
      [] ch = AnalogVar(3) -> [units |-> "V", description |-> "Analog input 3 voltage"]
      [] ch = DigitalVar(1) -> [units |-> "", description |-> "Digital input 1 value"]
      [] ch = DigitalVar(2) -> [units |-> "", description |-> "Digital input 2 value"]

\* the SKOutput objects, every one built with ai1_metadata
SkOutputInit_SharedMetadata ==
    [ch \in Channels |->
        [sk_path |-> SkPath(ch), metadata |-> SkMetadata(AnalogVar(1)),
         value |-> IF ch[1] = "analog" THEN 0 ELSE FALSE]]

\* the SKOutput objects as constructed in setup(), holding a default value
SkOutputInit ==
    [ch \in Channels |->
        [sk_path |-> SkPath(ch), metadata |-> SkMetadata(ch),
         value |-> IF ch[1] = "analog" THEN 0 ELSE FALSE]]

\* the paths a user may type into the configuration UI
EditedPaths == {"user.edited.path"}

----------------------------------------------------------------------------
(* The display driver: a frame buffer, the current font and alignment, the *)
(* frame last flushed to the panel, and the calls received since init().   *)

DisplayInit ==
    [buffer |-> <<>>, font |-> "unset", align |-> "unset", screen |-> <<>>,
     calls |-> {}]

Clear(d) == [d EXCEPT !.buffer = <<>>, !.calls = @ \cup {"clear"}]

SetFont(d, f) == [d EXCEPT !.font = f, !.calls = @ \cup {"setFont"}]

SetTextAlignment(d, a) ==
    [d EXCEPT !.align = a, !.calls = @ \cup {"setTextAlignment"}]

DrawString(d, x, y, text) ==
    [d EXCEPT !.buffer = Append(@, [x |-> x, y |-> y, text |-> text,
                                    font |-> d.font, align |-> d.align]),
              !.calls = @ \cup {"drawString"}]

Display(d) == [d EXCEPT !.screen = d.buffer, !.calls = @ \cup {"display"}]

\* the calls that clear, draw to or flush the frame buffer
FrameCalls == {"clear", "drawString", "display"}

\* "Test display functionality", setup() lines 236-245
SetupTestScreen(d) ==
    LET d1 == Clear(d)
        d2 == SetFont(d1, "ArialMT_Plain_10")
        d3 == SetTextAlignment(d2, "TEXT_ALIGN_LEFT")
        d4 == DrawString(d3, 0, 0, "Heltec V3")
        d5 == DrawString(d4, 0, 12, "Display Test")
        d6 == DrawString(d5, 0, 24, "Init: OK")
        d7 == SetFont(d6, "ArialMT_Plain_16")
        d8 == SetTextAlignment(d7, "TEXT_ALIGN_CENTER")
        d9 == DrawString(d8, 64, 45, "WORKING!")
    IN  Display(d9)

AnalogLine(i, v) == "A" \o ToString(AnalogGpio(i)) \o ": " \o FloatString2(v) \o "V"

DigitalLine(i, b) == "D" \o ToString(DigitalGpio(i)) \o ": " \o LevelString(b)

\* the redraw of loop() without its clear(): new text over the old frame
RenderFrame_NoClear(d, av, dv, uptime) ==
    LET d2 == SetFont(d, "ArialMT_Plain_10")
        d3 == SetTextAlignment(d2, "TEXT_ALIGN_LEFT")
        d4 == DrawString(d3, 0, 0, "SensESP Engine Reader")
        d5 == DrawString(d4, 0, 10, AnalogLine(1, av[1]))
        d6 == DrawString(d5, 0, 20, AnalogLine(2, av[2]))
        d7 == DrawString(d6, 0, 30, AnalogLine(3, av[3]))
        d8 == DrawString(d7, 0, 40, DigitalLine(1, dv[1]))
        d9 == DrawString(d8, 0, 50, DigitalLine(2, dv[2]))
        d10 == SetTextAlignment(d9, "TEXT_ALIGN_RIGHT")
        d11 == DrawString(d10, 128, 54, ToString(uptime) \o "s")
    IN  Display(d11)

\* the redraw of loop(), lines 265-288
RenderFrame(d, av, dv, uptime) ==
    LET d1 == Clear(d)
        d2 == SetFont(d1, "ArialMT_Plain_10")
        d3 == SetTextAlignment(d2, "TEXT_ALIGN_LEFT")
        d4 == DrawString(d3, 0, 0, "SensESP Engine Reader")
        d5 == DrawString(d4, 0, 10, AnalogLine(1, av[1]))
        d6 == DrawString(d5, 0, 20, AnalogLine(2, av[2]))
        d7 == DrawString(d6, 0, 30, AnalogLine(3, av[3]))
        d8 == DrawString(d7, 0, 40, DigitalLine(1, dv[1]))
        d9 == DrawString(d8, 0, 50, DigitalLine(2, dv[2]))
        d10 == SetTextAlignment(d9, "TEXT_ALIGN_RIGHT")
        d11 == DrawString(d10, 128, 54, ToString(uptime) \o "s")
    IN  Display(d11)

----------------------------------------------------------------------------
(* Callbacks.  A store st holds what callbacks may touch: the cached       *)
(* values av and dv, the Signal K outputs sk, and for each cached value    *)
(* the callbacks that have assigned it.  A callback is named by its kind   *)
(* and the poller it is registered with.                                   *)

Callback(kind, poller) == [kind |-> kind, poller |-> poller]

\* analog_inputN->attach(...), lines 111-124, reading another poller
AnalogObserver_WrongSource(i, st, inputs) ==
    [st EXCEPT !.av[i] = inputs[1].output,
               !.writers[AnalogVar(i)] = @ \cup {Callback("observer", AnalogVar(i))}]

\* analog_inputN->attach(...), lines 111-124, storing into another channel
AnalogObserver_WrongTarget(i, st, inputs) ==
    [st EXCEPT !.av[1] = inputs[i].output,
               !.writers[AnalogVar(1)] = @ \cup {Callback("observer", AnalogVar(i))}]

\* analog_inputN->attach(...), lines 111-124
AnalogObserver(i, st, inputs) ==
    [st EXCEPT !.av[i] = inputs[i].output,
               !.writers[AnalogVar(i)] = @ \cup {Callback("observer", AnalogVar(i))}]

\* digital_inputN->attach(...), lines 133-140
DigitalObserver(i, st, inputs) ==
    [st EXCEPT !.dv[i] = inputs[i].output,
               !.writers[DigitalVar(i)] = @ \cup {Callback("observer", DigitalVar(i))}]

\* digital_inputN_consumer, lines 147-158, both storing into input 1's value
DigitalConsumer_CopyPaste(i, st, input) ==
    [st EXCEPT !.dv[1] = input,
               !.writers[DigitalVar(1)] = @ \cup {Callback("consumer", DigitalVar(i))}]

\* digital_inputN_consumer, lines 147-158
DigitalConsumer(i, st, input) ==
    [st EXCEPT !.dv[i] = input,
               !.writers[DigitalVar(i)] = @ \cup {Callback("consumer", DigitalVar(i))}]

\* an SKOutput receiving a value: it keeps it for publishing
SkOutputSet(ch, st, input) == [st EXCEPT !.sk[ch].value = input]

\* the observers of each poller, in registration order
AnalogObservers(i) == <<"observer", "sk">>

DigitalObservers(i) == <<"observer", "consumer", "sk">>

RECURSIVE NotifyAnalog(_, _, _, _)
NotifyAnalog(obs, i, st, inputs) ==
    IF obs = <<>> THEN st
    ELSE LET st1 == CASE Head(obs) = "observer" -> AnalogObserver(i, st, inputs)
                      [] Head(obs) = "sk" ->
                            SkOutputSet(AnalogVar(i), st, inputs[i].output)
         IN  NotifyAnalog(Tail(obs), i, st1, inputs)

RECURSIVE NotifyDigital(_, _, _, _)
NotifyDigital(obs, i, st, inputs) ==
    IF obs = <<>> THEN st
    ELSE LET st1 == CASE Head(obs) = "observer" -> DigitalObserver(i, st, inputs)
                      [] Head(obs) = "consumer" ->
                            DigitalConsumer(i, st, inputs[i].output)
                      [] Head(obs) = "sk" ->
                            SkOutputSet(DigitalVar(i), st, inputs[i].output)
         IN  NotifyDigital(Tail(obs), i, st1, inputs)

Store ==
    [av |-> current_analog_value, dv |-> current_digital_input,
     sk |-> sk_output, writers |-> writers]

SetStore(st) ==
    /\ current_analog_value' = st.av
    /\ current_digital_input' = st.dv
    /\ sk_output' = st.sk
    /\ writers' = st.writers

----------------------------------------------------------------------------
(* Initial states *)

PollersInit ==
    /\ analog_input = [i \in AnalogChannels |-> [raw |-> 0, output |-> 0]]
    /\ digital_input = [i \in DigitalChannels |-> [raw |-> FALSE, output |-> FALSE]]

CachedInit ==
    /\ current_analog_value = [i \in AnalogChannels |-> 0]
    /\ current_digital_input = [i \in DigitalChannels |-> FALSE]

\* setup() has built the pollers, their callbacks and the Signal K outputs
\* and stands before line 225
InitBoot ==
    /\ pc = "setup_display_init"
    /\ millis = Zero32
    /\ CachedInit
    /\ PollersInit
    /\ display_working = FALSE
    /\ sk_output = SkOutputInit
    /\ display = DisplayInit
    /\ lastDisplayUpdate = Zero32
    /\ deviceCount = 0
    /\ writers = [v \in CachedVars |-> {}]
    /\ edits = 0

\* the state about 49.7 days later, WrapLead ms before millis() wraps and
\* one loop() after a redraw, with a working display: the analog pollers
\* have reported the same reading all along and no digital pin has changed
InitRunning ==
    /\ pc = "loop"
    /\ millis = U32(Half - 1, Half - WrapLead)
    /\ CachedInit
    /\ PollersInit
    /\ display_working = TRUE
    /\ sk_output = SkOutputInit
    /\ lastDisplayUpdate = Sub32(millis, U32(0, LoopDelay))
    /\ display = RenderFrame(SetupTestScreen(DisplayInit), current_analog_value,
                             current_digital_input, Div1000(lastDisplayUpdate))
    /\ deviceCount = 0
    /\ writers = [v \in CachedVars |->
                      IF v[1] = "analog" THEN {Callback("observer", v)} ELSE {}]
    /\ edits = 0

Init == InitBoot \/ InitRunning

----------------------------------------------------------------------------
(* setup(), lines 225-253 *)

\* lines 225-230: power the peripherals, wait, display.init()
SetupDisplayInit ==
    /\ pc = "setup_display_init"
    /\ millis' = Add32(millis, VextSettleDelay)
    /\ \E ok \in BOOLEAN : display_working' = ok
    /\ pc' = "setup_scan"
    /\ UNCHANGED <<current_analog_value, current_digital_input, analog_input,
                   digital_input, sk_output, display, lastDisplayUpdate,
                   deviceCount, writers, edits>>

\* the devices that may answer on the bus
I2CBuses == {{}, {DisplayAddress}}

\* scanI2C(), lines 55-74: the number of addresses that acknowledge
ScanI2C(bus) == Cardinality({address \in 1..LastScanAddress : address \in bus})

\* line 233
SetupScan ==
    /\ pc = "setup_scan"
    /\ \E bus \in I2CBuses : deviceCount' = ScanI2C(bus)
    /\ pc' = "setup_display_test"
    /\ UNCHANGED <<millis, current_analog_value, current_digital_input,
                   display_working, analog_input, digital_input, sk_output,
                   display, lastDisplayUpdate, writers, edits>>

\* lines 236-246 stopping when display.init() failed
SetupDisplayTest_Abort ==
    /\ pc = "setup_display_test"
    /\ display_working
    /\ display' = SetupTestScreen(display)
    /\ pc' = "loop"
    /\ deviceCount' = 0
    /\ UNCHANGED <<millis, current_analog_value, current_digital_input,
                   display_working, analog_input, digital_input, sk_output,
                   lastDisplayUpdate, writers, edits>>

\* lines 236-246, then the while (true) of lines 250-252 is entered;
\* scanI2C's local count is gone by now
SetupDisplayTest ==
    /\ pc = "setup_display_test"
    /\ display' = SetupTestScreen(display)
    /\ pc' = "loop"
    /\ deviceCount' = 0
    /\ UNCHANGED <<millis, current_analog_value, current_digital_input,
                   display_working, analog_input, digital_input, sk_output,
                   lastDisplayUpdate, writers, edits>>

----------------------------------------------------------------------------
(* event_loop()->tick(), line 256: what the framework may run *)

\* the pollers are followed to the end of the model's window
CanPoll ==
    \/ millis.hi = 0 /\ millis.lo <= MaxMillis
    \/ millis.hi = Half - 1 /\ millis.lo >= Half - WrapLead

\* loop() is followed for one pass more
CanAdvance ==
    \/ millis.hi = 0 /\ millis.lo <= MaxMillis + LoopDelay
    \/ millis.hi = Half - 1 /\ millis.lo >= Half - WrapLead

\* an AnalogInput reads its pin and notifies its observers
AnalogInputUpdate(i) ==
    /\ pc = "loop"
    /\ CanPoll
    /\ \E raw \in 0..MaxRaw :
          /\ analog_input' =
                 [analog_input EXCEPT ![i] = [raw |-> raw, output |-> AnalogScaled(raw)]]
          /\ SetStore(NotifyAnalog(AnalogObservers(i), i, Store, analog_input'))
    /\ UNCHANGED <<pc, millis, display_working, digital_input, display,
                   lastDisplayUpdate, deviceCount, edits>>

\* a DigitalInputChange reads its pin and notifies its observers
DigitalInputUpdate(i) ==
    /\ pc = "loop"
    /\ CanPoll
    /\ \E raw \in BOOLEAN :
          /\ digital_input' =
                 [digital_input EXCEPT ![i] = [raw |-> raw, output |-> raw]]
          /\ SetStore(NotifyDigital(DigitalObservers(i), i, Store, digital_input'))
    /\ UNCHANGED <<pc, millis, display_working, analog_input, display,
                   lastDisplayUpdate, deviceCount, edits>>

\* the configuration UI stores a new path in a registered SKOutput
ConfigEdit ==
    /\ pc = "loop"
    /\ CanPoll
    /\ edits < MaxEdits
    /\ \E ch \in Channels, path \in EditedPaths :
          /\ sk_output[ch].sk_path # path
          /\ sk_output' = [sk_output EXCEPT ![ch].sk_path = path]
    /\ edits' = edits + 1
    /\ UNCHANGED <<pc, millis, current_analog_value, current_digital_input,
                   display_working, analog_input, digital_input, display,
                   lastDisplayUpdate, deviceCount, writers>>

----------------------------------------------------------------------------
(* loop(), lines 255-300, after its tick() *)

\* line 261 written as millis() > lastDisplayUpdate + 1000
RedrawDue_Sum(working, now, last) ==
    working /\ Greater32(now, Add32(last, DisplayInterval))

\* line 261
RedrawDue(working, now, last) ==
    working /\ Above32(Sub32(now, last), DisplayInterval)

\* lines 258-299, but for display_working
LoopDisplay ==
    /\ pc = "loop"
    /\ CanAdvance
    /\ IF RedrawDue(display_working, millis, lastDisplayUpdate)
       THEN /\ lastDisplayUpdate' = millis
            /\ display' = RenderFrame(display, current_analog_value,
                                      current_digital_input, Div1000(millis))
            /\ millis' = Add32(millis, LoopDelay)
       ELSE /\ millis' = Add32(millis, LoopDelay)
            /\ UNCHANGED <<display, lastDisplayUpdate>>
    /\ UNCHANGED <<pc, current_analog_value, current_digital_input,
                   analog_input, digital_input, sk_output, deviceCount,
                   writers, edits>>

\* loop() that tries display.init() again while the display is not working
Loop_Reinit ==
    /\ LoopDisplay
    /\ IF display_working THEN UNCHANGED display_working
       ELSE \E ok \in BOOLEAN : display_working' = ok

\* lines 258-299
Loop ==
    /\ LoopDisplay
    /\ UNCHANGED display_working

----------------------------------------------------------------------------

Next ==
    \/ SetupDisplayInit
    \/ SetupScan
    \/ SetupDisplayTest
    \/ \E i \in AnalogChannels : AnalogInputUpdate(i)
    \/ \E i \in DigitalChannels : DigitalInputUpdate(i)
    \/ Loop

Spec == Init /\ [][Next]_vars

\* the program together with a user of the configuration UI, from boot
NextConfig ==
    \/ Next
    \/ ConfigEdit

SpecConfig == InitBoot /\ [][NextConfig]_vars

\* the processor always runs the next statement of setup() or loop()
ProgramStep ==
    \/ SetupDisplayInit
    \/ SetupScan
    \/ SetupDisplayTest
    \/ Loop

SpecLive == Init /\ [][Next]_vars /\ WF_vars(ProgramStep)

----------------------------------------------------------------------------
(* Properties *)

Notified(v) == writers[v] # {}

\* C2: once a poller has notified its observers, the cached value of its
\* channel equals the raw value it read last, times kAnalogInputScale for
\* an analog channel and as read for a digital channel.
C2_CachedIsScaledRaw ==
    /\ \A i \in AnalogChannels :
          Notified(AnalogVar(i)) =>
              current_analog_value[i] = kAnalogInputScale * analog_input[i].raw
    /\ \A i \in DigitalChannels :
          Notified(DigitalVar(i)) =>
              current_digital_input[i] = digital_input[i].raw

C2_Witness ==
    /\ analog_input[2].raw = 1
    /\ analog_input[1].raw = 0
    /\ current_analog_value[2] = kAnalogInputScale
    /\ Notified(DigitalVar(1))
    /\ digital_input[1].raw
    /\ current_digital_input[1]

\* C3: display_working is decided by display.init() in setup() and no later
\* step changes it: neither the rest of setup() nor any pass of loop().
C3_DecidedAtStartup ==
    [][pc # "setup_display_init" => display_working' = display_working]_vars

C3_Witness ==
    /\ pc = "loop"
    /\ display_working
    /\ millis = U32(0, 1200)
    /\ lastDisplayUpdate = U32(0, 1100)

\* C4 as claimed: every cached value is assigned by exactly one callback.
C4_OneCallbackPerValue ==
    \A v \in CachedVars : Cardinality(writers[v]) <= 1

\* C4 as amended: a cached value is assigned only by callbacks registered
\* with its own channel's poller: at most the attach() observer for an
\* analog value, the attach() observer and the LambdaConsumer for a digital
\* value.
C4_WritersBelongToOwnPoller ==
    /\ \A v \in CachedVars : \A w \in writers[v] : w.poller = v
    /\ \A i \in AnalogChannels :
          writers[AnalogVar(i)] \subseteq {Callback("observer", AnalogVar(i))}
    /\ \A i \in DigitalChannels :
          writers[DigitalVar(i)] \subseteq
              {Callback("observer", DigitalVar(i)), Callback("consumer", DigitalVar(i))}

C4_Witness ==
    /\ Cardinality(writers[DigitalVar(1)]) = 2
    /\ Cardinality(writers[DigitalVar(2)]) = 2
    /\ \A i \in AnalogChannels : Cardinality(writers[AnalogVar(i)]) = 1

\* C5: a notification from the poller of one channel leaves the cached
\* value of every other channel as it was: in a step in which a channel's
\* own poller holds the same reading and output as before, that channel's
\* cached value is unchanged.
C5_OtherChannelsUntouched ==
    [][/\ \A i \in AnalogChannels :
             analog_input'[i] = analog_input[i] =>
                 current_analog_value'[i] = current_analog_value[i]
       /\ \A i \in DigitalChannels :
             digital_input'[i] = digital_input[i] =>
                 current_digital_input'[i] = current_digital_input[i]]_vars

C5_Witness ==
    /\ \A v \in CachedVars : Notified(v)
    /\ current_analog_value[1] = 0
    /\ current_analog_value[2] = kAnalogInputScale
    /\ current_analog_value[3] = 0
    /\ ~current_digital_input[1]
    /\ current_digital_input[2]

\* the frame of loop()'s redraw as a function of the values shown
ExpectedLine(x, y, text, align) ==
    [x |-> x, y |-> y, text |-> text, font |-> "ArialMT_Plain_10", align |-> align]

ExpectedFrame(av, dv, uptime) ==
    << ExpectedLine(0, 0, "SensESP Engine Reader", "TEXT_ALIGN_LEFT"),
       ExpectedLine(0, 10, "A7: " \o FloatString2(av[1]) \o "V", "TEXT_ALIGN_LEFT"),
       ExpectedLine(0, 20, "A6: " \o FloatString2(av[2]) \o "V", "TEXT_ALIGN_LEFT"),
       ExpectedLine(0, 30, "A5: " \o FloatString2(av[3]) \o "V", "TEXT_ALIGN_LEFT"),
       ExpectedLine(0, 40, "D4: " \o LevelString(dv[1]), "TEXT_ALIGN_LEFT"),
       ExpectedLine(0, 50, "D3: " \o LevelString(dv[2]), "TEXT_ALIGN_LEFT"),
       ExpectedLine(128, 54, ToString(uptime) \o "s", "TEXT_ALIGN_RIGHT") >>

\* C6: the frame a redraw flushes is ExpectedFrame of the cached values and
\* of the uptime millis()/1000 at the redraw, whatever the buffer, font and
\* alignment held before.
C6_FrameIsFunctionOfValues ==
    [][lastDisplayUpdate' # lastDisplayUpdate =>
          display'.screen =
              ExpectedFrame(current_analog_value, current_digital_input,
                            Div1000(millis))]_vars

C6_Witness ==
    /\ display_working
    /\ Len(display.screen) = 7
    /\ display.screen[2].text = "A7: 0.33V"
    /\ display.screen[5].text = "D4: HIGH"
    /\ display.screen[6].text = "D3: LOW"
    /\ display.screen[7].text = "1s"

\* C7 as claimed: the path and metadata of every Signal K output stay as
\* constructed.
C7_BindingsNeverChange ==
    \A ch \in Channels :
        /\ sk_output[ch].sk_path = SkPath(ch)
        /\ sk_output[ch].metadata = SkMetadata(ch)

\* C7 as amended: the metadata of every Signal K output stays as
\* constructed, and its path changes only in a configuration edit.
C7_OnlyConfigEditsChangePaths ==
    [][\A ch \in Channels :
          /\ sk_output[ch].metadata = SkMetadata(ch)
          /\ sk_output'[ch].metadata = SkMetadata(ch)
          /\ sk_output'[ch].sk_path # sk_output[ch].sk_path => edits' = edits + 1]_vars

C7_Witness ==
    /\ sk_output[AnalogVar(1)].sk_path = "user.edited.path"
    /\ sk_output[AnalogVar(1)].metadata = SkMetadata(AnalogVar(1))
    /\ sk_output[AnalogVar(1)].value = kAnalogInputScale
    /\ millis = U32(0, 1200)

\* C8: whatever display.init() and the I2C scan return, setup() enters its
\* loop and loop() keeps being run: every run gets past the end of the
\* model's window.
C8_MainLoopKeepsRunning == <>(pc = "loop" /\ ~CanAdvance)

C8_Witness ==
    /\ pc = "loop"
    /\ ~display_working
    /\ ~CanAdvance
    /\ display.screen # <<>>

\* C9 as claimed: while display_working is false after the init attempt, the
\* driver has received no clear, drawString or display call.
C9_NoFrameCallsWhileUnavailable ==
    (pc # "setup_display_init" /\ ~display_working) =>
        display.calls \cap FrameCalls = {}

\* C10: with the display working, a pass of loop() redraws exactly when more
\* than 1000 ms (mod 2^32) have passed since lastDisplayUpdate; a redraw
\* sets lastDisplayUpdate to the time it reads, more than 1000 ms after the
\* previous one; and no pass starts more than 1000 ms + one loop delay after
\* the last redraw.
Elapsed == Sub32(millis, lastDisplayUpdate)

C10_RedrawCadence ==
    [][(pc = "loop" /\ millis' # millis /\ display_working) =>
          /\ lastDisplayUpdate' # lastDisplayUpdate
                <=> Above32(Elapsed, DisplayInterval)
          /\ lastDisplayUpdate' # lastDisplayUpdate =>
                /\ Above32(Sub32(lastDisplayUpdate', lastDisplayUpdate), DisplayInterval)
                /\ lastDisplayUpdate' = millis
          /\ ~Above32(Elapsed, DisplayInterval + LoopDelay)
          /\ ~Above32(Sub32(millis', lastDisplayUpdate'), DisplayInterval + LoopDelay)]_vars

C10_Witness ==
    /\ display_working
    /\ lastDisplayUpdate.hi = 0
    /\ lastDisplayUpdate.lo > 0
    /\ lastDisplayUpdate.lo <= DisplayInterval
    /\ millis.hi = 0
    /\ millis.lo > lastDisplayUpdate.lo

====
